---- MODULE Spec2Model ----
(***************************************************************************)
(* Lifecycle and persistence of CTF scenario documents                     *)
(* (models/CTFScenario.model.ts): the Mongoose schema validators, the      *)
(* pre('save') hook, the instance methods publish / archive / saveDraft,   *)
(* the find* statics and the factory createCTFScenario.                    *)
(*                                                                         *)
(* A document lives in two places: the stored record (store[id]) and any   *)
(* number of in-memory copies (hdl[h]) obtained from the factory or from a *)
(* find.  save() returns a promise and works in later turns of the event   *)
(* loop, one after the other: it validates the in-memory copy against the  *)
(* schema, runs the pre('save') hook, computes and sends the write (an     *)
(* insert for a new document, a $set of the paths modified by then for an  *)
(* existing one), and the store answers.  The next statement of a caller   *)
(* that does not await the promise runs between any two of these turns, so *)
(* the write can carry a value assigned after validation.                  *)
(* The write compares Mongoose's version key only when it $sets            *)
(* an array; metadata.version is never compared (the schema sets no       *)
(* optimisticConcurrency option).                                         *)
(*                                                                         *)
(* The two stand-alone validators, validateCTFScenario and                 *)
(* validateCTFScenarioData, are pure functions of a plain record; they are *)
(* applied to records drawn from bounded sets under SpecValidate.          *)
(***************************************************************************)
EXTENDS Integers, Sequences, FiniteSets, TLC

VARIABLES store, hdl, now, nextOid, last, trail, candidate, verdict

vars == <<store, hdl, now, nextOid, last, trail, candidate, verdict>>

(* ---------------------------------------------------------------- bounds *)

\* The clock takes the values 0..MaxTime (milliseconds of Date).
MaxTime == 2

\* Number of createCTFScenario calls (each draws one ObjectId).
MaxRecords == 2

\* Saves stop once an in-memory version reaches this value.
MaxVersion == 3

(* ------------------------------------------------------ schema constants *)

DescMinLength == 300
DescMaxLength == 600
HintsMinCount == 3
HintsMaxCount == 7
SolutionsMinCount == 1
ObjectivesMinCount == 1
MaxScoreMin == 0
SuggestedCostMin == 0
VersionMin == 1

Statuses == {"draft", "pending_review", "published", "archived"}

ScenarioTypes == {"ctf"}

\* The two in-memory copies a caller may hold at once.
Handles == {"a", "b"}

Instructors == {"alice", "bob"}

(* ------------------------------------------------------- optional values *)

None == [has |-> FALSE]

Opt(v) == [has |-> TRUE, val |-> v]

(* ------------------------------------------------------------ identifiers *)

\* new mongoose.Types.ObjectId().toString(): the n-th generated id.
ObjectId(n) == [src |-> "oid", n |-> n]

\* An id string the caller put in the input.
CallerId(n) == [src |-> "caller", n |-> n]

CallerIds == {CallerId(1)}

(* --------------------------------------------------------------- content *)
(* basic_info and game_content after Mongoose's casts and setters (trim):  *)
(* descLen is the length of the trimmed description (0: absent or empty),  *)
(* flag the trimmed flag as a sequence of characters (<<>>: absent),       *)
(* hints the suggested_cost of each hint in order, feedback the set of     *)
(* feedback_templates keys that hold text, solutions / objectives the      *)
(* lengths of the two arrays.                                              *)

GoodFlag == <<"C", "T", "F", "{", "a", "}">>

GoodContent ==
  [descLen    |-> 300,
   flag       |-> GoodFlag,
   hints      |-> <<0, 5, 10>>,
   feedback   |-> {"correct", "invalid_format"},
   maxScore   |-> 100,
   solutions  |-> 1,
   objectives |-> 1]

\* A second valid content, on the upper boundaries.
EdgeContent ==
  [descLen    |-> 600,
   flag       |-> GoodFlag,
   hints      |-> <<0, 0, 0, 0, 0, 0, 0>>,
   feedback   |-> {"correct", "invalid_format", "close"},
   maxScore   |-> 0,
   solutions  |-> 1,
   objectives |-> 1]

BadContents ==
  { [GoodContent EXCEPT !.descLen = 299],
    [GoodContent EXCEPT !.descLen = 601],
    [GoodContent EXCEPT !.flag = <<"C", "T", "F", "{", "}">>],
    [GoodContent EXCEPT !.flag = <<"C", "T", "F", "[", "a", "]">>],
    [GoodContent EXCEPT !.hints = <<0, 5>>],
    [GoodContent EXCEPT !.hints = <<0, 0, 0, 0, 0, 0, 0, 0>>],
    [GoodContent EXCEPT !.hints = <<0, 0 - 1, 5>>],
    [GoodContent EXCEPT !.feedback = {"correct"}],
    [GoodContent EXCEPT !.feedback = {"invalid_format", "close"}],
    [GoodContent EXCEPT !.maxScore = 0 - 1],
    [GoodContent EXCEPT !.solutions = 0],
    [GoodContent EXCEPT !.objectives = 0] }

Contents == {GoodContent, EdgeContent} \cup BadContents

(* ------------------------------------------------------ schema validators *)

\* match: /^CTF\{[^\}]+\}$/
FlagMatches(f) ==
  /\ Len(f) >= 6
  /\ SubSeq(f, 1, 4) = <<"C", "T", "F", "{">>
  /\ f[Len(f)] = "}"
  /\ \A i \in 5..(Len(f) - 1) : f[i] # "}"

\* description: required, minlength 300, maxlength 600
DescriptionOk(c) ==
  /\ c.descLen > 0
  /\ c.descLen >= DescMinLength
  /\ c.descLen <= DescMaxLength

\* flag: required, match
FlagOk(c) == c.flag # <<>> /\ FlagMatches(c.flag)

\* max_score: min 0
MaxScoreOk(c) == c.maxScore >= MaxScoreMin

HintsCountOkLoose(c) == Len(c.hints) >= HintsMinCount

\* hints validator: hints.length >= 3 && hints.length <= 7
HintsCountOk(c) ==
  Len(c.hints) >= HintsMinCount /\ Len(c.hints) <= HintsMaxCount

\* HintSchema.suggested_cost: required, min 0
HintCostsOk(c) == \A i \in 1..Len(c.hints) : c.hints[i] >= SuggestedCostMin

\* feedback_templates: required; correct and invalid_format required
FeedbackOk(c) == {"correct", "invalid_format"} \subseteq c.feedback

\* solutions validator: solutions.length >= 1
SolutionsOk(c) == c.solutions >= SolutionsMinCount

\* learning_objectives validator: objectives.length >= 1
ObjectivesOk(c) == c.objectives >= ObjectivesMinCount

ValidGameContent(c) ==
  /\ DescriptionOk(c)
  /\ FlagOk(c)
  /\ MaxScoreOk(c)
  /\ HintsCountOk(c)
  /\ HintCostsOk(c)
  /\ FeedbackOk(c)
  /\ SolutionsOk(c)

ValidMetadata(d) ==
  /\ d.createdBy \in Instructors
  /\ d.version >= VersionMin
  /\ d.status \in Statuses

\* Document validation as save() runs it, before the pre('save') hook.
ValidDoc(d) ==
  /\ d.type \in ScenarioTypes
  /\ ObjectivesOk(d.content)
  /\ ValidGameContent(d.content)
  /\ ValidMetadata(d)

(* ------------------------------------------------------------- documents *)
(* A document: scenario_id, scenario_type, the content, the metadata       *)
(* sub-document (created_by, created_at, updated_at, version, status,      *)
(* llm_generated) and vkey, Mongoose's version key __v.                    *)
(*                                                                         *)
(* An in-memory copy (a Mongoose document) carries, besides the document:  *)
(* isNew; mod, the paths modified since the last save was sent; job, the   *)
(* save() of this copy that is under way, if any; and two history values,  *)
(* base (the version the copy was created or loaded at) and saves (its     *)
(* successful saves since then).                                           *)

NoHandle == [used |-> FALSE]

\* "arrays": one of the array paths game_content.hints,
\* game_content.solutions, basic_info.learning_objectives.
Paths == {"content", "arrays", "status", "version", "updated_at"}

\* No save() under way.
Idle == [phase |-> "idle"]

Busy(hd) == hd.used /\ hd.job.phase # "idle"

\* A statement of another callback assigned to a copy whose save() is
\* under way.
Disturbed(hd) ==
  IF Busy(hd) THEN [hd EXCEPT !.job.quiet = FALSE] ELSE hd

\* The copy may be assigned to: no save of it is under way, or one is and
\* nothing has been assigned to the copy since it was called (one
\* interfering statement per save is followed).
Assignable(hd) == Busy(hd) => hd.job.quiet

\* The caller's next statement may run on the copy: in any turn of the
\* event loop when the caller does not await (overlap), else when no save
\* is under way.
May(hd, overlap) == overlap \/ ~Busy(hd)

\* Assigning a path marks it modified when the value changes.
SetStatus(hd, s) ==
  IF hd.doc.status = s
    THEN hd
    ELSE [hd EXCEPT !.doc.status = s, !.mod = @ \cup {"status"}]

ArraysDiffer(c, d) ==
  c.hints # d.hints \/ c.solutions # d.solutions \/ c.objectives # d.objectives

\* whole: basic_info and game_content are assigned as objects; otherwise
\* each field is assigned by itself, the arrays among them.
SetContent(hd, c, whole) ==
  IF hd.doc.content = c
    THEN hd
    ELSE [hd EXCEPT !.doc.content = c,
                    !.mod = @ \cup {"content"} \cup
                              (IF ~whole /\ ArraysDiffer(hd.doc.content, c)
                                 THEN {"arrays"} ELSE {})]

SetUpdatedAt(hd, t) ==
  IF hd.doc.updatedAt = t
    THEN hd
    ELSE [hd EXCEPT !.doc.updatedAt = t, !.mod = @ \cup {"updated_at"}]

BumpVersion(hd) ==
  [hd EXCEPT !.doc.version = @ + 1, !.mod = @ \cup {"version"}]

(* ---------------------------------------------------------- pre('save') *)

PreSaveAlwaysBumps(hd, t) == BumpVersion(SetUpdatedAt(hd, t))

PreSaveNoStamp(hd, t) == IF hd.isNew THEN hd ELSE BumpVersion(hd)

\* this.metadata.updated_at = new Date();
\* if (!this.isNew) this.metadata.version += 1;
PreSave(hd, t) ==
  LET stamped == SetUpdatedAt(hd, t)
  IN  IF ~stamped.isNew THEN BumpVersion(stamped) ELSE stamped

(* ---------------------------------------------------------------- save() *)
(* save() returns a promise and does its work in later turns of the event  *)
(* loop: called (the call has returned, nothing has run), validated (the   *)
(* values of the document have been validated), hooked (the pre('save')    *)
(* hook has run and its next() is deferred), sent (the write has been      *)
(* computed from the paths modified by then and is on its way to the       *)
(* store), and back to idle when the write has been answered.  What        *)
(* another callback assigns to the document between two of these turns is  *)
(* in the document the next turn reads.  A second save() of a copy whose   *)
(* save is under way is refused at the call (ParallelSaveError).           *)

\* insertOne of a new document.
Insert(st, d) ==
  [i \in (DOMAIN st) \cup {d.id} |-> IF i = d.id THEN d ELSE st[i]]

\* updateOne(where, {$set: <modified paths>}) on the stored record; a $set
\* of an array comes with $inc of the version key.
Merge(s, d, mod) ==
  [s EXCEPT
     !.content   = IF "content" \in mod THEN d.content ELSE @,
     !.status    = IF "status" \in mod THEN d.status ELSE @,
     !.version   = IF "version" \in mod THEN d.version ELSE @,
     !.updatedAt = IF "updated_at" \in mod THEN d.updatedAt ELSE @,
     !.vkey      = IF "arrays" \in mod THEN @ + 1 ELSE @]

\* save() has been called on hd by the operation op; pre is what the copy
\* was before the operation, info what a factory call is remembered by.
Begin(hd, op, pre, info) ==
  [hd EXCEPT !.job = [phase |-> "called", op |-> op, pre |-> pre,
                      quiet |-> TRUE, info |-> info]]

\* The values of hd have been validated and accepted.
Validated(hd) == [hd EXCEPT !.job.phase = "validated"]

\* The pre('save') hook runs on hd at clock reading t and calls next().
Hooked(hd, t) ==
  [PreSave(hd, t) EXCEPT
     !.job = [phase |-> "hooked", op |-> hd.job.op, pre |-> hd.job.pre,
              quiet |-> hd.job.quiet, info |-> hd.job.info, at |-> t]]

\* The hooks are done: the write is computed from the paths of hd that are
\* modified now, with the values they hold now, and sent; the paths are
\* reset.
Send(hd) ==
  [hd EXCEPT !.isNew = FALSE,
             !.mod = {},
             !.job = [phase |-> "sent", op |-> hd.job.op,
                      pre |-> hd.job.pre,
                      quiet |-> hd.job.quiet, info |-> hd.job.info,
                      at |-> hd.job.at, delta |-> hd.doc, dmod |-> hd.mod,
                      wasNew |-> hd.isNew]]

\* The store refuses the write sent for hd: a new document whose
\* scenario_id is already stored (unique index), or an update with an array
\* among its paths whose version key is no longer the stored one
\* (VersionError).
Refused(hd, st) ==
  LET j == hd.job
  IN  IF j.wasNew
        THEN j.delta.id \in DOMAIN st
        ELSE "arrays" \in j.dmod /\ st[j.delta.id].vkey # j.delta.vkey

\* The write sent for hd is answered by the store st: whether the promise
\* resolved, the in-memory copy and the stored records afterwards.  On a
\* refusal the reset of the modified paths is undone.
Receive(hd, st) ==
  LET j == hd.job
  IN  IF Refused(hd, st)
        THEN [ok |-> FALSE,
              hd |-> [hd EXCEPT !.isNew = j.wasNew,
                                !.mod = @ \cup j.dmod,
                                !.job = Idle],
              st |-> st]
        ELSE IF j.wasNew
          THEN [ok |-> TRUE,
                hd |-> [hd EXCEPT !.job = Idle],
                st |-> Insert(st, j.delta)]
          ELSE [ok |-> TRUE,
                hd |-> [hd EXCEPT !.job = Idle,
                                  !.saves = @ + 1,
                                  !.doc.vkey = IF "arrays" \in j.dmod
                                                 THEN @ + 1 ELSE @],
                st |-> [st EXCEPT ![j.delta.id] = Merge(@, j.delta, j.dmod)]]

\* A save() that nothing interleaves with: validation, then the hook at
\* clock reading t, then the write against st.
SaveResult(hd, st, t) ==
  IF ~ValidDoc(hd.doc)
    THEN [ok |-> FALSE, hd |-> [hd EXCEPT !.job = Idle], st |-> st]
    ELSE Receive(Send(Hooked(Validated(hd), t)), st)

(* ------------------------------------------------------ createCTFScenario *)
(* The input is a Partial<CTFScenario>: scenario_id, scenario_type,        *)
(* llm_config and metadata may each be present or not.                     *)

CallerMetadata ==
  [createdBy |-> "mallory", createdAt |-> 0, updatedAt |-> 0, version |-> 7,
   status |-> "published", llmGenerated |-> TRUE]

\* new CTFScenarioModel({scenario_id: <ObjectId>, scenario_type: 'ctf',
\*   ...scenarioData, metadata: {...}}): in the object literal a later key
\* replaces an earlier one, so the input's scenario_id and scenario_type
\* replace the generated ones and the literal metadata replaces the input's.
\* created_at and updated_at are two readings of the clock, t1 and t2.
Construct(input, instructorId, oid, t1, t2) ==
  LET meta == [createdBy |-> instructorId, createdAt |-> t1,
               updatedAt |-> t2, version |-> 1, status |-> "draft",
               llmGenerated |-> input.llm_config]
  IN  [id           |-> IF input.scenario_id.has
                          THEN input.scenario_id.val ELSE oid,
       type         |-> IF input.scenario_type.has
                          THEN input.scenario_type.val ELSE "ctf",
       content      |-> input.content,
       createdBy    |-> meta.createdBy,
       createdAt    |-> meta.createdAt,
       updatedAt    |-> meta.updatedAt,
       version      |-> meta.version,
       status       |-> meta.status,
       llmGenerated |-> meta.llmGenerated,
       vkey         |-> 0]

\* What a createCTFScenario call is remembered by: its arguments, the
\* ObjectId it drew, the ids stored when it was called, and what the
\* caller's variable held.
CreateInfo(input, instructorId, oid, st, prev) ==
  [who |-> instructorId, llm |-> input.llm_config,
   given |-> input.scenario_id, oid |-> oid, ids |-> DOMAIN st,
   prev |-> prev]

\* const scenario = new CTFScenarioModel({...}); scenario.save() called.
CreateCopy(st, input, instructorId, oid, t1, t2, prev) ==
  LET d == Construct(input, instructorId, oid, t1, t2)
  IN  Begin([used |-> TRUE, doc |-> d, isNew |-> TRUE, mod |-> Paths,
             base |-> d.version, saves |-> 0, job |-> Idle],
            "create", [doc |-> d, mod |-> Paths],
            CreateInfo(input, instructorId, oid, st, prev))

\* createCTFScenario(scenarioData, instructorId) against the stored records
\* st with nothing interleaved: the document is built at the clock readings
\* t1 and t2 and saved with the pre('save') hook reading t.
CreateResult(st, input, instructorId, oid, t1, t2, t) ==
  SaveResult(CreateCopy(st, input, instructorId, oid, t1, t2, NoHandle),
             st, t)

(* ------------------------------------------------------ history variables *)
(* last: the operation that has just resolved or rejected, with the        *)
(* in-memory copy it was called on and the stored record its write (or its *)
(* rejection) found.  trail[h]: what the copy h went through since the     *)
(* factory returned it, for as long as that is a prefix of create,         *)
(* publish, archive, each called after the one before has resolved.        *)

NoLast == [op |-> "none"]

LifecycleOps == {"publish", "archive", "saveDraft"}

SaveOps == LifecycleOps \cup {"save", "submitForReview"}

Entry(op, ok, d) ==
  [op |-> op, ok |-> ok, status |-> d.status, version |-> d.version,
   updatedAt |-> d.updatedAt]

Script == <<"create", "publish", "archive">>

\* The trail of a copy after the operation op left it as document d.
Extend(tr, op, ok, d) ==
  IF Len(tr) >= 1 /\ Len(tr) < Len(Script) /\ Script[Len(tr) + 1] = op
       /\ tr[Len(tr)].ok
    THEN Append(tr, Entry(op, ok, d))
    ELSE <<>>

\* What a finished createCTFScenario call is remembered by; d is the
\* document it built, as the call left it.
CreateLast(h, j, ok, d) ==
  [op |-> "create", h |-> h, ok |-> ok, who |-> j.info.who,
   llm |-> j.info.llm, given |-> j.info.given,
   accepted |-> ValidDoc(d), oid |-> j.info.oid, doc |-> d,
   ids |-> j.info.ids]

\* What a finished save, publish, archive or saveDraft is remembered by:
\* pre the copy before the call, spre the stored record before the write
\* or the rejection, at the clock reading of the hook, quiet whether no
\* other callback assigned to the copy meanwhile.
OpLast(h, j, ok, err, s, t) ==
  [op |-> j.op, h |-> h, ok |-> ok, err |-> err, pre |-> j.pre,
   spre |-> s, at |-> t, quiet |-> j.quiet]

(* ---------------------------------------------------------------- inputs *)

\* Every shape of input, for the factory, with a content the schema
\* accepts or one it rejects.
Inputs ==
  [scenario_id   : {None} \cup {Opt(i) : i \in CallerIds},
   scenario_type : {None, Opt("ctf"), Opt("quiz")},
   content       : {GoodContent, [GoodContent EXCEPT !.descLen = 299]},
   llm_config    : BOOLEAN,
   metadata      : {None, Opt(CallerMetadata)}]

\* The input of the record whose lifecycle is followed.
PlainInputs ==
  [scenario_id   : {None},
   scenario_type : {None},
   content       : {GoodContent},
   llm_config    : {FALSE},
   metadata      : {None}]

EmptyStore == [i \in {} |-> i]

\* No record handed to a validation function, and no result of one.
NoCandidate == [given |-> FALSE]

NoVerdict == [full |-> None, partial |-> None]

(* ----------------------------------------------------------------- state *)

\* Nothing stored, no copy held.
InitEmpty ==
  /\ store = EmptyStore
  /\ hdl = [h \in Handles |-> NoHandle]
  /\ now = 0
  /\ nextOid = 1
  /\ last = NoLast
  /\ trail = [h \in Handles |-> <<>>]
  /\ candidate = NoCandidate
  /\ verdict = NoVerdict

\* One record, as createCTFScenario has just returned it to copy "a".
Init ==
  \E input \in PlainInputs, t \in {0, 1} :
    LET c == CreateCopy(EmptyStore, input, "alice", ObjectId(1), 0, t,
                        NoHandle)
        r == SaveResult(c, EmptyStore, t)
    IN  /\ r.ok
        /\ t <= MaxTime
        /\ store = r.st
        /\ hdl = [h \in Handles |-> IF h = "a" THEN r.hd ELSE NoHandle]
        /\ now = t
        /\ nextOid = 2
        /\ last = CreateLast("a", c.job, TRUE, r.hd.doc)
        /\ trail = [h \in Handles |->
                      IF h = "a" THEN <<Entry("create", TRUE, r.hd.doc)>>
                                 ELSE <<>>]
        /\ candidate = NoCandidate
        /\ verdict = NoVerdict

\* The wall clock advances between the turns of the event loop.
Tick ==
  /\ now < MaxTime
  /\ now' = now + 1
  /\ last' = NoLast
  /\ UNCHANGED <<store, hdl, nextOid, trail, candidate, verdict>>

\* The callers hold the copy h and no factory call is building it.
Held(h) ==
  /\ hdl[h].used
  /\ Busy(hdl[h]) => hdl[h].job.op # "create"

CanSave(h) == Held(h) /\ hdl[h].doc.version < MaxVersion

\* An operation op of the in-memory copy h that mutates it to hd and calls
\* save().  If a save of the copy is under way the call is rejected at once
\* (ParallelSaveError) and the assignment stays; otherwise the save starts.
Persist(h, op, hd) ==
  /\ hd # hdl[h] => Assignable(hdl[h])
  /\ IF Busy(hdl[h])
       THEN /\ hdl' = [hdl EXCEPT ![h] =
                         IF hd = hdl[h] THEN hd ELSE Disturbed(hd)]
            /\ last' = [op |-> op, h |-> h, ok |-> FALSE,
                        err |-> "ParallelSaveError",
                        pre |-> [doc |-> hdl[h].doc, mod |-> hdl[h].mod],
                        spre |-> store[hdl[h].doc.id],
                        at |-> now, quiet |-> TRUE]
            /\ trail' = [trail EXCEPT ![h] = <<>>]
       ELSE /\ hdl' = [hdl EXCEPT ![h] =
                         Begin(hd, op,
                               [doc |-> hdl[h].doc, mod |-> hdl[h].mod],
                               None)]
            /\ last' = NoLast
            /\ UNCHANGED trail
  /\ UNCHANGED <<store, now, nextOid, candidate, verdict>>

\* The copy h as a finished operation leaves it: a factory call that threw
\* leaves the caller's variable as it was.
Settled(hd, ok) ==
  IF hd.job.op = "create" /\ ~ok THEN hd.job.info.prev
  ELSE [hd EXCEPT !.job = Idle]

\* A finished operation of copy h (job j, document d): last and trail.
Finish(h, j, ok, err, d) ==
  IF j.op = "create"
    THEN /\ last' = CreateLast(h, j, ok, d)
         /\ trail' = [trail EXCEPT ![h] =
                        IF ok THEN <<Entry("create", TRUE, d)>> ELSE @]
    ELSE /\ last' = OpLast(h, j, ok, err, store[d.id],
                           IF j.phase = "sent" THEN j.at ELSE now)
         /\ trail' = [trail EXCEPT ![h] = Extend(@, j.op, ok, d)]

\* The save() called on copy h gets its first turn: the values the
\* document holds now are validated.
Validate(h) ==
  /\ hdl[h].used
  /\ hdl[h].job.phase = "called"
  /\ IF ~ValidDoc(hdl[h].doc)
       THEN /\ hdl' = [hdl EXCEPT ![h] = Settled(@, FALSE)]
            /\ Finish(h, hdl[h].job, FALSE, "ValidationError", hdl[h].doc)
       ELSE /\ hdl' = [hdl EXCEPT ![h] = Validated(@)]
            /\ last' = NoLast
            /\ UNCHANGED trail
  /\ UNCHANGED <<store, now, nextOid, candidate, verdict>>

\* A later turn: the pre('save') hook of the schema runs on copy h.
Hook(h) ==
  /\ hdl[h].used
  /\ hdl[h].job.phase = "validated"
  /\ hdl' = [hdl EXCEPT ![h] = Hooked(@, now)]
  /\ last' = NoLast
  /\ UNCHANGED <<store, now, nextOid, trail, candidate, verdict>>

\* A later turn, after the hook's next(): the write of copy h is computed
\* and sent.
Dispatch(h) ==
  /\ hdl[h].used
  /\ hdl[h].job.phase = "hooked"
  /\ hdl' = [hdl EXCEPT ![h] = Send(@)]
  /\ last' = NoLast
  /\ UNCHANGED <<store, now, nextOid, trail, candidate, verdict>>

\* The store answers the write sent for copy h.
Land(h) ==
  /\ hdl[h].used
  /\ hdl[h].job.phase = "sent"
  /\ LET r == Receive(hdl[h], store)
     IN  /\ hdl' = [hdl EXCEPT ![h] = Settled(
                      [r.hd EXCEPT !.job = hdl[h].job], r.ok)]
         /\ store' = r.st
         /\ Finish(h, hdl[h].job, r.ok, "StoreError", r.hd.doc)
  /\ UNCHANGED <<now, nextOid, candidate, verdict>>

\* scenario.save()
Save(h) ==
  /\ CanSave(h)
  /\ Persist(h, "save", hdl[h])

\* this.metadata.status = 'published'; return this.save();
Publish(h) ==
  /\ CanSave(h)
  /\ Persist(h, "publish", SetStatus(hdl[h], "published"))

\* this.metadata.status = 'archived'; return this.save();
Archive(h) ==
  /\ CanSave(h)
  /\ Persist(h, "archive", SetStatus(hdl[h], "archived"))

\* this.metadata.status = 'draft'; return this.save();
SaveDraft(h) ==
  /\ CanSave(h)
  /\ Persist(h, "saveDraft", SetStatus(hdl[h], "draft"))

\* draft -> pending_review: the caller assigns the status and saves.
SubmitForReview(h) ==
  /\ CanSave(h)
  /\ hdl[h].doc.status = "draft"
  /\ Persist(h, "submitForReview", SetStatus(hdl[h], "pending_review"))

\* The contents an edit assigns when two copies are held, or while a save
\* of the copy is under way.
EditContents ==
  {EdgeContent, [GoodContent EXCEPT !.hints = <<0, 0, 0, 0, 0, 0, 0, 0>>]}

\* scenario.basic_info.title = "Updated Title" and the like: an assignment
\* to content paths of the in-memory copy, field by field or of basic_info
\* and game_content as wholes.
EditContent(h, c, whole) ==
  /\ Held(h)
  /\ c # hdl[h].doc.content
  /\ Assignable(hdl[h])
  /\ hdl' = [hdl EXCEPT ![h] = Disturbed(SetContent(@, c, whole))]
  /\ last' = NoLast
  /\ trail' = [trail EXCEPT ![h] = <<>>]
  /\ UNCHANGED <<store, now, nextOid, candidate, verdict>>

\* find(...): a fresh in-memory copy of a stored record, bound to h once
\* no save of what h held is under way.
Load(h, id) ==
  /\ id \in DOMAIN store
  /\ ~Busy(hdl[h])
  /\ hdl' = [hdl EXCEPT ![h] =
               [used |-> TRUE, doc |-> store[id], isNew |-> FALSE, mod |-> {},
                base |-> store[id].version, saves |-> 0, job |-> Idle]]
  /\ last' = NoLast
  /\ trail' = [trail EXCEPT ![h] = <<>>]
  /\ UNCHANGED <<store, now, nextOid, candidate, verdict>>

\* createCTFScenario(scenarioData, instructorId) is called, its result to
\* be bound to h: the document is built (one ObjectId, two readings of the
\* clock) and save() is called on it.
Create(h, input, instructorId) ==
  /\ nextOid <= MaxRecords
  /\ ~Busy(hdl[h])
  /\ \E t \in {now, now + 1} :
       /\ t <= MaxTime
       /\ hdl' = [hdl EXCEPT ![h] =
                    CreateCopy(store, input, instructorId, ObjectId(nextOid),
                               now, t, @)]
       /\ now' = t
  /\ nextOid' = nextOid + 1
  /\ last' = NoLast
  /\ UNCHANGED <<store, trail, candidate, verdict>>

(* -------------------------------------------------------- specifications *)

\* The operations on the in-memory copies hs, editing with the contents cs,
\* assigned as whole objects or field by field as ws says.
\* overlap: a copy is operated on while a save of it is under way (the
\* caller does not await), between any two turns of the save; otherwise
\* every call waits for the one before.
Operate(hs, cs, ws, overlap) ==
  \/ \E h \in hs, id \in DOMAIN store : Load(h, id)
  \/ \E h \in hs, c \in cs, whole \in ws :
       May(hdl[h], overlap) /\ EditContent(h, c, whole)
  \/ \E h \in hs : May(hdl[h], overlap) /\ Save(h)
  \/ \E h \in hs : May(hdl[h], overlap) /\ SubmitForReview(h)
  \/ \E h \in hs : May(hdl[h], overlap) /\ Publish(h)
  \/ \E h \in hs : May(hdl[h], overlap) /\ Archive(h)
  \/ \E h \in hs : May(hdl[h], overlap) /\ SaveDraft(h)
  \/ \E h \in hs : Validate(h)
  \/ \E h \in hs : Hook(h)
  \/ \E h \in hs : Dispatch(h)
  \/ \E h \in hs : Land(h)

\* The lifecycle of one record through one in-memory copy, with every
\* content assigned to it, each call awaited.
Next == Tick \/ Operate({"a"}, Contents, BOOLEAN, FALSE)

Spec == Init /\ [][Next]_vars

\* The same, the caller going on while a save is under way; the contents
\* are assigned field by field (scenario.game_content.hints = [...]).
NextOverlap == Tick \/ Operate({"a"}, EditContents, {FALSE}, TRUE)

SpecOverlap == Init /\ [][NextOverlap]_vars

\* The same record held in two in-memory copies at once, saved and
\* published, the clock standing still; each copy is left alone while a
\* save of it is under way, and the saves of the two copies interleave.
NextCopies ==
  \/ \E h \in Handles, id \in DOMAIN store : Load(h, id)
  \/ \E h \in Handles, c \in EditContents, whole \in BOOLEAN :
       ~Busy(hdl[h]) /\ EditContent(h, c, whole)
  \/ \E h \in Handles : ~Busy(hdl[h]) /\ Save(h)
  \/ \E h \in Handles : ~Busy(hdl[h]) /\ Publish(h)
  \/ \E h \in Handles : Validate(h)
  \/ \E h \in Handles : Hook(h)
  \/ \E h \in Handles : Dispatch(h)
  \/ \E h \in Handles : Land(h)

SpecCopies == Init /\ [][NextCopies]_vars

\* The factory, called with every shape of input.
NextFactory ==
  \/ Tick
  \/ \E h \in Handles, input \in Inputs, who \in Instructors :
       Create(h, input, who)
  \/ \E h \in Handles : Validate(h)
  \/ \E h \in Handles : Hook(h)
  \/ \E h \in Handles : Dispatch(h)
  \/ \E h \in Handles : Land(h)

SpecFactory == InitEmpty /\ [][NextFactory]_vars

(* ------------------------------------------------- validation functions *)
(* The two stand-alone validators: validateCTFScenario                     *)
(* (schemas/scenarios/ctf-scenario.schema.ts) and validateCTFScenarioData  *)
(* (models/CTFScenario.model.ts).  Both take a plain object, not a         *)
(* Mongoose document, so no cast or trim has happened: a field is absent   *)
(* (None) or holds its raw value.  description is the length of the raw    *)
(* string, flag the raw string as a sequence of characters, hints /        *)
(* solutions / learning_objectives the lengths of the arrays;              *)
(* game_content tells whether that sub-object exists, and an absent        *)
(* basic_info is an absent learning_objectives.                            *)

\* Lengths probed beyond the largest length a bound allows.
Slack == 2

\* Characters a probed flag holds between its opening and its closing part.
MaxBody == 2

FlagValidationTypes == {"exact_match", "regex", "case_insensitive"}

CTF_CONSTRAINTS ==
  [description |-> [min_length |-> 300, max_length |-> 600],
   hints       |-> [min_count |-> 3, max_count |-> 7],
   solutions   |-> [min_count |-> 1]]

\* String(undefined): the text RegExp.prototype.test matches an absent
\* argument against.
Undefined == <<"u", "n", "d", "e", "f", "i", "n", "e", "d">>

\* One entry of the errors array: which check pushed it, and the count the
\* message quotes ("(current: N)"), if it quotes one.
Err(kind, current) == [kind |-> kind, current |-> current]

\* The function raised a TypeError (a property read on undefined).
Thrown == [threw |-> TRUE]

\* return { valid: errors.length === 0, errors }
Returned(errors) ==
  [threw |-> FALSE, valid |-> (Len(errors) = 0), errors |-> errors]

\* The description check with both bounds exclusive.
FullDescriptionErrorOpen(c) ==
  IF \/ c.description.val <= CTF_CONSTRAINTS.description.min_length
     \/ c.description.val >= CTF_CONSTRAINTS.description.max_length
  THEN <<Err("description", None)>> ELSE <<>>

FullDescriptionError(c) ==
  IF \/ c.description.val < CTF_CONSTRAINTS.description.min_length
     \/ c.description.val > CTF_CONSTRAINTS.description.max_length
  THEN <<Err("description", None)>> ELSE <<>>

FullFlagError(c) ==
  IF ~FlagMatches(IF c.flag.has THEN c.flag.val ELSE Undefined)
  THEN <<Err("flag", None)>> ELSE <<>>

FullHintsError(c) ==
  IF \/ c.hints.val < CTF_CONSTRAINTS.hints.min_count
     \/ c.hints.val > CTF_CONSTRAINTS.hints.max_count
  THEN <<Err("hints", None)>> ELSE <<>>

FullSolutionsError(c) ==
  IF c.solutions.val < CTF_CONSTRAINTS.solutions.min_count
  THEN <<Err("solutions", None)>> ELSE <<>>

\* validateCTFScenario(scenario): reads scenario.game_content.description
\* .length, .hints.length and .solutions.length without a guard, so an
\* absent game_content, description, hints or solutions raises.
validateCTFScenario(c) ==
  IF \/ ~c.game_content
     \/ ~c.description.has
     \/ ~c.hints.has
     \/ ~c.solutions.has
  THEN Thrown
  ELSE Returned(FullDescriptionError(c) \o FullFlagError(c)
                  \o FullHintsError(c) \o FullSolutionsError(c))

\* JavaScript truthiness of an optional string (by length or by characters)
\* and of an optional array: absent and "" are falsy, [] is truthy.
TruthyText(o) == o.has /\ o.val > 0

TruthyChars(o) == o.has /\ Len(o.val) > 0

TruthyArray(o) == o.has

PartialDescriptionError(c) ==
  IF c.game_content /\ TruthyText(c.description)
       /\ (c.description.val < 300 \/ c.description.val > 600)
  THEN <<Err("description", Opt(c.description.val))>> ELSE <<>>

PartialFlagError(c) ==
  IF c.game_content /\ TruthyChars(c.flag) /\ ~FlagMatches(c.flag.val)
  THEN <<Err("flag", None)>> ELSE <<>>

PartialHintsError(c) ==
  IF c.game_content /\ TruthyArray(c.hints)
       /\ (c.hints.val < 3 \/ c.hints.val > 7)
  THEN <<Err("hints", Opt(c.hints.val))>> ELSE <<>>

PartialSolutionsError(c) ==
  IF c.game_content /\ TruthyArray(c.solutions) /\ c.solutions.val < 1
  THEN <<Err("solutions", None)>> ELSE <<>>

PartialObjectivesError(c) ==
  IF TruthyArray(c.learning_objectives) /\ c.learning_objectives.val < 1
  THEN <<Err("objectives", None)>> ELSE <<>>

\* validateCTFScenarioData(data): every read goes through ?. and a
\* truthiness test, so nothing raises for an object argument.
validateCTFScenarioData(c) ==
  Returned(PartialDescriptionError(c) \o PartialFlagError(c)
             \o PartialHintsError(c) \o PartialSolutionsError(c)
             \o PartialObjectivesError(c))

\* A record handed to the validators.
Cand(gc, d, f, m, h, s, o) ==
  [given |-> TRUE, game_content |-> gc, description |-> d, flag |-> f,
   flag_validation |-> m, hints |-> h, solutions |-> s,
   learning_objectives |-> o]

\* Records whose description and hints run over every length from empty to
\* Slack past the upper bound; the other fields satisfy their constraints.
RangeCandidates ==
  { Cand(TRUE, Opt(d), Opt(GoodFlag), "exact_match", Opt(h), Opt(1), Opt(1)) :
      d \in 0..(CTF_CONSTRAINTS.description.max_length + Slack),
      h \in 0..(CTF_CONSTRAINTS.hints.max_count + Slack) }

\* Flags: an opening part, up to MaxBody characters, a closing part.
FlagHeads ==
  { <<>>, <<"C", "T", "F", "{">>, <<"C", "T", "F", "[">>,
    <<"T", "F", "{">>, <<"x", "C", "T", "F", "{">>, <<"c", "t", "f", "{">> }

FlagBodies ==
  UNION { [1..n -> {"a", "}", "{"}] : n \in 0..MaxBody }

FlagTails == { <<>>, <<"}">>, <<"]">>, <<"}", "x">> }

FlagStrings ==
  { h \o b \o t : h \in FlagHeads, b \in FlagBodies, t \in FlagTails }

FlagCandidates ==
  { Cand(TRUE, Opt(300), f, m, Opt(3), Opt(1), Opt(1)) :
      f \in {None} \cup {Opt(x) : x \in FlagStrings},
      m \in FlagValidationTypes }

\* Records of every shape: each field absent, empty, or on either side of
\* its constraint; and the record without game_content.
ShapeCandidates ==
  { Cand(TRUE, d, f, "exact_match", h, s, o) :
      d \in {None, Opt(0), Opt(299), Opt(300), Opt(601)},
      f \in {None, Opt(<<>>), Opt(GoodFlag),
             Opt(<<"C", "T", "F", "{", "}">>)},
      h \in {None, Opt(0), Opt(2), Opt(3), Opt(8)},
      s \in {None, Opt(0), Opt(1)},
      o \in {None, Opt(0), Opt(1)} }
  \cup { Cand(FALSE, None, None, "exact_match", None, None, o) :
           o \in {None, Opt(0), Opt(1)} }

Candidates == RangeCandidates \cup FlagCandidates \cup ShapeCandidates

InitValidate ==
  /\ store = EmptyStore
  /\ hdl = [h \in Handles |-> NoHandle]
  /\ now = 0
  /\ nextOid = 1
  /\ last = NoLast
  /\ trail = [h \in Handles |-> <<>>]
  /\ candidate \in Candidates
  /\ verdict = NoVerdict

ValidateFull ==
  /\ candidate.given
  /\ ~verdict.full.has
  /\ verdict' = [verdict EXCEPT !.full = Opt(validateCTFScenario(candidate))]
  /\ UNCHANGED <<store, hdl, now, nextOid, last, trail, candidate>>

ValidatePartial ==
  /\ candidate.given
  /\ ~verdict.partial.has
  /\ verdict' =
       [verdict EXCEPT !.partial = Opt(validateCTFScenarioData(candidate))]
  /\ UNCHANGED <<store, hdl, now, nextOid, last, trail, candidate>>

NextValidate == ValidateFull \/ ValidatePartial

SpecValidate == InitValidate /\ [][NextValidate]_vars

(* ================================================================ claims *)

\* The in-memory copy and the stored record the last operation acted on.
LastDoc == hdl[last.h].doc

LastStored == store[last.pre.doc.id]

(* C1: publish applied to a record whose status is archived is rejected   *)
(* and leaves the record as it was: status archived, version and          *)
(* updatedAt unchanged, in memory and in the store.                       *)
C1_PublishArchivedRejected ==
  (last.op = "publish" /\ last.pre.doc.status = "archived"
     /\ last.spre.status = "archived")
  => /\ ~last.ok
     /\ LastDoc.status = "archived"
     /\ LastDoc.version = last.pre.doc.version
     /\ LastDoc.updatedAt = last.pre.doc.updatedAt
     /\ LastStored = last.spre

(* C2: archived is terminal: no lifecycle operation (publish, archive,    *)
(* saveDraft) applied to a record stored as archived leaves it stored     *)
(* with another status.                                                   *)
C2_ArchivedTerminal ==
  (last.op \in LifecycleOps /\ last.spre.status = "archived")
  => LastStored.status = "archived"

\* The lifecycle graph: the status changes each operation may make.
GraphEdge(op, from, to) ==
  \/ op = "publish" /\ from \in {"draft", "pending_review"} /\ to = "published"
  \/ op = "archive" /\ from # "archived" /\ to = "archived"
  \/ op = "saveDraft" /\ from \in {"draft", "pending_review"} /\ to = "draft"

(* C3: every change of the stored status made by a lifecycle operation is *)
(* an edge of the lifecycle graph; saveDraft never turns a published      *)
(* record back into a draft.                                              *)
C3_OnlyGraphEdges ==
  (last.op \in LifecycleOps /\ LastStored.status # last.spre.status)
  => GraphEdge(last.op, last.spre.status, LastStored.status)

(* C4: the stored version never goes down: the create leaves it at 1 and  *)
(* every successful save after it raises the stored version by exactly 1. *)
C4_VersionCountsSaves ==
  /\ (last.op = "create" /\ last.ok) => store[last.doc.id].version = 1
  /\ (last.op \in SaveOps /\ last.ok)
       => LastStored.version = last.spre.version + 1

(* C5: a lifecycle operation that persists sets updatedAt to the time at  *)
(* which it runs (the clock reading of its save, not later than the      *)
(* answer), in memory and in the store, and changes nothing of the        *)
(* document but status, version and updatedAt; the stored id,             *)
(* scenarioType, createdBy and createdAt stay, and so does the stored     *)
(* content unless the copy carried an unsaved edit of it.  What another   *)
(* callback assigns to the copy while the save is under way is not the    *)
(* operation's doing.                                                     *)
C5_TransitionFrame ==
  (last.op \in LifecycleOps /\ last.ok)
  => /\ last.at <= now
     /\ last.at >= last.pre.doc.updatedAt
     /\ LastDoc.updatedAt = last.at
     /\ LastStored.updatedAt = last.at
     /\ last.quiet =>
          [LastDoc EXCEPT !.status = last.pre.doc.status,
                          !.version = last.pre.doc.version,
                          !.updatedAt = last.pre.doc.updatedAt,
                          !.vkey = last.pre.doc.vkey] = last.pre.doc
     /\ LastStored.id = last.spre.id
     /\ LastStored.type = last.spre.type
     /\ LastStored.createdBy = last.spre.createdBy
     /\ LastStored.createdAt = last.spre.createdAt
     /\ LastStored.llmGenerated = last.spre.llmGenerated
     /\ (last.quiet /\ "content" \notin last.pre.mod)
           => LastStored.content = last.spre.content

\* A lifecycle operation changed the status of a record created earlier,
\* at a later clock reading.
C5_Witness ==
  /\ last.op \in LifecycleOps
  /\ last.ok
  /\ LastDoc.status # last.pre.doc.status
  /\ LastDoc.updatedAt > last.pre.doc.updatedAt
  /\ LastDoc.updatedAt > LastDoc.createdAt
  /\ LastStored = LastDoc

(* C6: every record the factory returns has status draft, version 1,      *)
(* createdBy the given creator, createdAt equal to updatedAt, scenarioType *)
(* ctf, and llmGenerated exactly when the input carried an llmConfig.     *)
C6_FactoryContract ==
  (last.op = "create" /\ last.ok)
  => /\ last.doc.status = "draft"
     /\ last.doc.version = 1
     /\ last.doc.createdBy = last.who
     /\ last.doc.createdAt = last.doc.updatedAt
     /\ last.doc.type = "ctf"
     /\ last.doc.llmGenerated = last.llm
     /\ store[last.doc.id] = last.doc

(* C7: every factory call whose input the schema accepts yields a record, *)
(* and its id is one no earlier record has, whatever the input contains.  *)
C7_FreshIds ==
  (last.op = "create" /\ last.accepted)
  => /\ last.ok
     /\ last.doc.id \notin last.ids

(* C8: two copies of a record loaded at the same stored version v and     *)
(* each saved once with success never leave the stored version at v + 1.  *)
C8_NoLostUpdate ==
  \A h1 \in Handles, h2 \in Handles :
    (/\ h1 # h2
     /\ hdl[h1].used /\ hdl[h2].used
     /\ hdl[h1].doc.id = hdl[h2].doc.id
     /\ hdl[h1].base = hdl[h2].base
     /\ hdl[h1].saves = 1 /\ hdl[h2].saves = 1)
    => store[hdl[h1].doc.id].version # hdl[h1].base + 1

\* The gamification-facing fields of a content, well-formed.
GamificationReady(c) ==
  /\ \E n \in 1..Len(c.flag) :
       /\ Len(c.flag) = n + 5
       /\ c.flag[1] = "C" /\ c.flag[2] = "T" /\ c.flag[3] = "F"
       /\ c.flag[4] = "{" /\ c.flag[n + 5] = "}"
       /\ \A i \in 5..(n + 4) : c.flag[i] # "}"
  /\ Len(c.hints) \in 3..7
  /\ \A i \in DOMAIN c.hints : c.hints[i] >= 0
  /\ "correct" \in c.feedback
  /\ "invalid_format" \in c.feedback
  /\ c.maxScore >= 0

(* C9: every stored record whose status is published has well-formed      *)
(* gamification-facing fields: a flag of the form CTF{...}, 3 to 7 hints   *)
(* of non-negative cost, the feedback templates correct and               *)
(* invalid_format, and a non-negative maxScore.                           *)
C9_PublishedWellFormed ==
  \A id \in DOMAIN store :
    store[id].status = "published" => GamificationReady(store[id].content)

\* A published record on the boundaries: 7 hints, maxScore 0, stored after
\* an edit of the in-memory copy.
C9_Witness ==
  \E id \in DOMAIN store :
    /\ store[id].status = "published"
    /\ store[id].content = EdgeContent
    /\ last.op = "publish"
    /\ last.ok

\* Copies the factory returned and that were then published, and archived.
Published1 == {h \in Handles : Len(trail[h]) >= 2}

Archived2 == {h \in Handles : Len(trail[h]) = 3}

\* publish then archive on a fresh draft succeed, with versions 2 and 3 and
\* the statuses published and archived.
C10_Steps ==
  /\ \A h \in Published1 :
       /\ trail[h][1].status = "draft" /\ trail[h][1].version = 1
       /\ trail[h][2].ok
       /\ trail[h][2].status = "published"
       /\ trail[h][2].version = 2
  /\ \A h \in Archived2 :
       /\ trail[h][3].ok
       /\ trail[h][3].status = "archived"
       /\ trail[h][3].version = 3
       /\ last.op = "archive" /\ last.h = h
            => /\ store[hdl[h].doc.id].status = "archived"
               /\ store[hdl[h].doc.id].version = 3

(* C10 as stated: publish then archive on a freshly created draft succeed, *)
(* end archived at version 3, and updatedAt is strictly greater after     *)
(* each step than before it.                                              *)
C10_StrictlyLater ==
  /\ C10_Steps
  /\ \A h \in Handles : \A i \in 2..Len(trail[h]) :
       trail[h][i].updatedAt > trail[h][i - 1].updatedAt

(* C10 amended: publish then archive on a freshly created draft succeed,   *)
(* end archived at version 3, and updatedAt after each step is not         *)
(* earlier than before it.                                                *)
C10_NotEarlier ==
  /\ C10_Steps
  /\ \A h \in Handles : \A i \in 2..Len(trail[h]) :
       trail[h][i].updatedAt >= trail[h][i - 1].updatedAt

\* create, publish and archive all done, at three clock readings.
C10_Witness ==
  \E h \in Archived2 :
    /\ trail[h][3].ok
    /\ trail[h][1].updatedAt < trail[h][2].updatedAt
    /\ trail[h][2].updatedAt < trail[h][3].updatedAt
    /\ hdl[h].doc.status = "archived"


(* ------------------------------------------------ claims on the validators *)

\* The checks in the order the validation result is said to list them.
CheckOrder == <<"description", "flag", "hints", "solutions", "objectives">>

\* A flag of the form CTF{ + one or more characters other than } + }.
WellFormedFlag(f) ==
  \E n \in 1..Len(f) :
    /\ Len(f) = n + 5
    /\ f[1] = "C" /\ f[2] = "T" /\ f[3] = "F" /\ f[4] = "{"
    /\ f[n + 5] = "}"
    /\ \A i \in 5..(n + 4) : f[i] # "}"

\* The record c violates the constraint that check k stands for; an absent
\* required field violates its constraint.
ViolatesCheck(c, k) ==
  CASE k = "description" ->
         \/ ~(c.game_content /\ c.description.has)
         \/ c.description.val \notin 300..600
    [] k = "flag" ->
         \/ ~(c.game_content /\ c.flag.has)
         \/ ~WellFormedFlag(c.flag.val)
    [] k = "hints" ->
         \/ ~(c.game_content /\ c.hints.has)
         \/ c.hints.val \notin 3..7
    [] k = "solutions" ->
         \/ ~(c.game_content /\ c.solutions.has)
         \/ c.solutions.val < 1
    [] k = "objectives" ->
         \/ ~c.learning_objectives.has
         \/ c.learning_objectives.val < 1

\* Every field the validators look at is present (possibly empty).
CompleteRecord(c) ==
  /\ c.game_content
  /\ c.description.has /\ c.flag.has /\ c.hints.has /\ c.solutions.has
  /\ c.learning_objectives.has

\* The checks named by an errors array, in its order.
Kinds(errors) == [i \in 1..Len(errors) |-> errors[i].kind]

\* The checks of CheckOrder that c fails, in that order.
FailingChecks(c) == SelectSeq(CheckOrder, LAMBDA k : ViolatesCheck(c, k))

\* The results obtained so far for the record under validation.
Results ==
  {o.val : o \in {x \in {verdict.full, verdict.partial} : x.has}}

(* C11: for a record with every field present, each validator's errors     *)
(* are exactly the failing checks, listed in the order description, flag,  *)
(* hints, solutions, learning objectives.                                  *)
C11_ErrorsInCheckOrder ==
  (candidate.given /\ CompleteRecord(candidate)) =>
    \A r \in Results :
      ~r.threw /\ Kinds(r.errors) = FailingChecks(candidate)

(* C12: for a record with every field present, each validator reports     *)
(* one error per violated constraint, whatever failed before it, and      *)
(* valid is true exactly when the errors array is empty.                  *)
C12_OneErrorPerViolation ==
  (candidate.given /\ CompleteRecord(candidate)) =>
    \A r \in Results :
      /\ ~r.threw
      /\ Len(r.errors)
           = Cardinality({i \in DOMAIN CheckOrder :
                            ViolatesCheck(candidate, CheckOrder[i])})
      /\ r.valid <=> (r.errors = <<>>)

\* How many entries of r.errors the check k pushed.
ErrorsOf(r, k) == Cardinality({i \in DOMAIN r.errors : r.errors[i].kind = k})

(* C13: the length and count bounds are inclusive at both ends: a          *)
(* description of 300 to 600 characters gets no description error, one of  *)
(* 299 or 601 characters exactly one; 3 and 7 hints pass the hints check,  *)
(* 2 and 8 hints fail it.                                                  *)
C13_InclusiveBounds ==
  \A r \in Results :
    ~r.threw =>
      /\ candidate.description.has =>
           /\ candidate.description.val \in 300..600
                => ErrorsOf(r, "description") = 0
           /\ candidate.description.val \in {299, 601}
                => ErrorsOf(r, "description") = 1
      /\ candidate.hints.has =>
           /\ candidate.hints.val \in {3, 7} => ErrorsOf(r, "hints") = 0
           /\ candidate.hints.val \in {2, 8} => ErrorsOf(r, "hints") = 1

\* Both validators have accepted a record with a description of 600
\* characters and 7 hints.
C13_Witness ==
  /\ candidate.given
  /\ candidate.description = Opt(600)
  /\ candidate.hints = Opt(7)
  /\ verdict.full.has /\ verdict.partial.has
  /\ \A r \in Results : ~r.threw /\ r.valid /\ r.errors = <<>>

(* C14: in both validators the flag check passes exactly for    *)
(* the strings CTF{ + one or more characters other than } + }, and every  *)
(* other string is reported as a flag error.                               *)
C14_EveryStringChecked ==
  (candidate.given /\ candidate.game_content /\ candidate.flag.has) =>
    \A r \in Results :
      ~r.threw =>
        (ErrorsOf(r, "flag") = 0 <=> WellFormedFlag(candidate.flag.val))

(* C15: validation never raises: for every record, also one with absent   *)
(* fields, each validator returns a result, and that result holds an      *)
(* error for every absent required field.                                 *)
C15_NeverThrows ==
  \A r \in Results :
    /\ ~r.threw
    /\ \A k \in {"description", "hints", "solutions"} :
         ~(candidate.game_content /\ candidate[k].has)
           => ErrorsOf(r, k) >= 1

(* C16: a publish, archive or saveDraft whose save is rejected leaves the *)
(* in-memory record's status and version as they were before the call     *)
(* and equal to the stored ones.                                           *)
C16_RejectedSaveLeavesRecord ==
  (last.op \in LifecycleOps /\ ~last.ok) =>
    /\ LastDoc.status = last.pre.doc.status
    /\ LastDoc.version = last.pre.doc.version
    /\ LastDoc.status = LastStored.status
    /\ LastDoc.version = LastStored.version

(* C17: on a record with description, flag, hints, solutions and learning *)
(* objectives present, validateCTFScenario and validateCTFScenarioData    *)
(* return the same valid and report the same set of violated constraints. *)
C17_ValidatorsAgree ==
  (candidate.given /\ CompleteRecord(candidate)
     /\ verdict.full.has /\ verdict.partial.has) =>
    /\ ~verdict.full.val.threw
    /\ ~verdict.partial.val.threw
    /\ verdict.full.val.valid = verdict.partial.val.valid
    /\ {verdict.full.val.errors[i].kind :
          i \in DOMAIN verdict.full.val.errors}
         = {verdict.partial.val.errors[i].kind :
              i \in DOMAIN verdict.partial.val.errors}

====
